---- MODULE Spec2Model ----
(***************************************************************************)
(* Fan-out/fan-in reduction over unbuffered Go channels:                   *)
(*   ProcessLinesFromReader, GoReduceLinesFromReader and GoReduce.         *)
(* One behaviour is one call of GoReduceLinesFromReader (variant "lines")  *)
(* or of GoReduce (variant "chan"), together with the goroutines it        *)
(* starts, the caller feeding GoReduce's inChan, and the single consumer   *)
(* of the returned outChan.                                                *)
(***************************************************************************)
EXTENDS Integers, Sequences, FiniteSets

\* ---------------------------------------------------------------- bounds
MaxWorkers == 2
MaxLen == 4
MaxItems == 3
MaxSrc == 4

\* ---------------------------------------------------------------- values
\* The delimiter ReadString is called with, and the bytes of the model.
Delim == "\n"
Bytes == {"a", Delim}

\* interface{} results: <<>> is nil, <<v>> is a value v.
Nil == <<>>
Some(v) == <<v>>

Workers == 1..MaxWorkers

\* No run pushes more Items than this.
MaxPush == IF MaxLen > MaxItems THEN MaxLen ELSE MaxItems

RECURSIVE SeqsUpTo(_, _)
SeqsUpTo(S, n) ==
    IF n = 0 THEN {<<>>}
    ELSE LET shorter == SeqsUpTo(S, n - 1)
         IN  shorter \cup {Append(s, x) : s \in {t \in shorter : Len(t) = n - 1}, x \in S}

\* The byte streams an io.Reader may deliver before it returns an error.
Streams == SeqsUpTo(Bytes, MaxLen)
\* The Items a caller of GoReduce may push.
CallerItem == {<<"a">>, <<"a", "a">>}
CallerSeqs == SeqsUpTo(CallerItem, MaxItems)

\* The reduceFunc arguments of the model:
\*   "len"   : the length of the item when it is longer than 1, else nil
\*   "const" : the same non-nil value for every item
ReduceFuncs == {"len", "const"}
\*   "fault" : panics on an item longer than 1, else as "const"

VARIABLES
    variant,      \* "lines": GoReduceLinesFromReader, "chan": GoReduce
    numWorkers,   \* the numWorkers argument
    reduceFunc,   \* the reduceFunc argument
    r,            \* the bytes the io.Reader delivers
    rErr,         \* the error the io.Reader returns after them: "EOF" or "fail"
    rPos,         \* bufio.Reader: index of the next unread byte of r
    line,         \* the argument of the running processFunc call
    callerItems,  \* the Items the caller of GoReduce pushes
    callerCloses, \* whether that caller closes inChan after the last push
    callerPc,     \* "push", "close", "idle" (never closes), "done"
    callerK,      \* number of the caller's pushes that have completed
    enginePc,     \* the goroutine started at line 19 / line 54
    worker,       \* its loop variable
    wg,           \* sync.WaitGroup counter
    inClosed,     \* inChan is closed
    outClosed,    \* outChan is closed
    wPc,          \* worker goroutines: "none", "recv", "reduce", "send", "done"
    wIn,          \* each worker's in: [idx, item], idx the number of the push;
                  \* NoItem outside the loop body
    wOut,         \* each worker's out; Nil outside the loop body
    consumerPc,   \* the consumer of outChan: "recv", "done" (saw the close)
    received,     \* the values the consumer received, in order
    calls,        \* history: the arguments processFunc was called with
    recvLog,      \* history: receives on inChan, [w, idx, item]
    reduceCalls,  \* history: the number of reduceFunc calls on each push
    pushed,       \* history: the Items whose send on inChan completed
    closeLog,     \* history: close calls, [by, ch]
    panic,        \* "none", or the run-time panic that ended the program
    src,          \* format.Source: the src argument
    fmt           \* format.Source: [pc, i, j, indent, res], "off" when not called

vars == <<variant, numWorkers, reduceFunc, r, rErr, rPos, line, callerItems,
          callerCloses, callerPc, callerK, enginePc, worker, wg, inClosed,
          outClosed, wPc, wIn, wOut, consumerPc, received, calls, recvLog,
          reduceCalls, pushed, closeLog, panic, src, fmt>>

args == <<variant, numWorkers, reduceFunc, r, rErr, callerItems, callerCloses, src, fmt>>
readerVars == <<rPos, line, calls>>
callerVars == <<callerPc, callerK>>
engineVars == <<enginePc, worker>>
chanVars == <<inClosed, outClosed, closeLog>>
workerVars == <<wPc, wIn, wOut>>
consumerVars == <<consumerPc, received>>

NoItem == [idx |-> 0, item |-> <<>>]

FmtOff == [pc |-> "off", i |-> 0, j |-> 0, indent |-> 0, res |-> <<>>]

\* The state at a call of GoReduceLinesFromReader or GoReduce with a
\* reduceFunc of fs; numWorkers is any int, negative ones included.
InitRun(fs) ==
    /\ src = <<>>
    /\ fmt = FmtOff
    /\ variant \in {"lines", "chan"}
    /\ numWorkers \in -1..MaxWorkers
    /\ reduceFunc \in fs
    /\ IF variant = "lines"
       THEN /\ r \in Streams
            /\ rErr \in {"EOF", "fail"}
            /\ callerItems = <<>>
            /\ callerCloses = FALSE
            /\ callerPc = "done"
       ELSE /\ r = <<>>
            /\ rErr = "EOF"
            /\ callerItems \in CallerSeqs
            /\ callerCloses \in BOOLEAN
            /\ callerPc = "push"
    /\ rPos = 1
    /\ line = <<>>
    /\ callerK = 0
    /\ enginePc = "spawn"
    /\ worker = 0
    /\ wg = 0
    /\ inClosed = FALSE
    /\ outClosed = FALSE
    /\ wPc = [w \in Workers |-> "none"]
    /\ wIn = [w \in Workers |-> NoItem]
    /\ wOut = [w \in Workers |-> Nil]
    /\ consumerPc = "recv"
    /\ received = <<>>
    /\ calls = <<>>
    /\ recvLog = <<>>
    /\ reduceCalls = [i \in 1..MaxPush |-> 0]
    /\ pushed = <<>>
    /\ closeLog = <<>>
    /\ panic = "none"

Init == InitRun(ReduceFuncs)

\* ------------------------------------------------------- pure functions
Min(S) == CHOOSE x \in S : \A y \in S : x <= y

\* bufio.Reader.ReadString(delim) at read position pos: the bytes up to and
\* including the first delimiter, or the rest of the bytes and the reader's error.
ReadString(pos) ==
    LET at == {i \in pos..Len(r) : r[i] = Delim}
    IN  IF at # {}
        THEN [line |-> SubSeq(r, pos, Min(at)), err |-> "nil", pos |-> Min(at) + 1]
        ELSE [line |-> SubSeq(r, pos, Len(r)), err |-> rErr, pos |-> Len(r) + 1]

\* TrimLast that trims nothing.
TrimNothing(s) == s

\* line[:len(line)-1]
TrimLast(s) == SubSeq(s, 1, Len(s) - 1)

\* reduceFunc(in)
Reduce(f, in) ==
    IF f = "len"
    THEN IF Len(in) > 1 THEN Some(Len(in)) ELSE Nil
    ELSE Some(0)

\* reduceFunc(in) panics.
Panics(f, in) == f = "fault" /\ Len(in) > 1

\* ------------------------------------------------------ the worker loop
\* WorkerTakes with the received Item discarded: the worker receives again
\* without calling reduceFunc.
WorkerTakesAndDrops(w, idx, item) ==
    /\ wPc[w] = "recv"
    /\ ~inClosed
    /\ recvLog' = Append(recvLog, [w |-> w, idx |-> idx, item |-> item])
    /\ pushed' = Append(pushed, item)
    /\ UNCHANGED workerVars

\* `in, ok := <-inChan` with ok: worker w takes the Item a sender hands over.
\* Constrains workerVars, recvLog, pushed.
WorkerTakes(w, idx, item) ==
    /\ wPc[w] = "recv"
    /\ ~inClosed
    /\ wPc' = [wPc EXCEPT ![w] = "reduce"]
    /\ wIn' = [wIn EXCEPT ![w] = [idx |-> idx, item |-> item]]
    /\ recvLog' = Append(recvLog, [w |-> w, idx |-> idx, item |-> item])
    /\ pushed' = Append(pushed, item)
    /\ UNCHANGED wOut

\* WorkerReturns in a worker that returns whenever it has no Item, inChan
\* open or closed.
WorkerReturnsWhenIdle(w) ==
    /\ wPc[w] = "recv"
    /\ wPc' = [wPc EXCEPT ![w] = "done"]
    /\ wg' = wg - 1
    /\ UNCHANGED <<wIn, wOut>>

\* WorkerReturns without the deferred wg.Done().
WorkerReturnsWithoutDone(w) ==
    /\ wPc[w] = "recv"
    /\ inClosed
    /\ wPc' = [wPc EXCEPT ![w] = "done"]
    /\ UNCHANGED <<wg, wIn, wOut>>

\* `in, ok := <-inChan` with !ok: inChan is closed, the worker returns and
\* its deferred wg.Done() runs.  Constrains workerVars, wg.
WorkerReturns(w) ==
    /\ wPc[w] = "recv"
    /\ inClosed
    /\ wPc' = [wPc EXCEPT ![w] = "done"]
    /\ wg' = wg - 1
    /\ UNCHANGED <<wIn, wOut>>

\* WorkerReduces without the test out != nil: every result is sent.
WorkerReducesSendsNil(w) ==
    /\ wPc[w] = "reduce"
    /\ reduceCalls' = [reduceCalls EXCEPT ![wIn[w].idx] = @ + 1]
    /\ wOut' = [wOut EXCEPT ![w] = Reduce(reduceFunc, wIn[w].item)]
    /\ wPc' = [wPc EXCEPT ![w] = "send"]
    /\ UNCHANGED wIn

\* `out := reduceFunc(in)` and the test `out != nil`.
\* Constrains workerVars, reduceCalls.
WorkerReduces(w) ==
    /\ wPc[w] = "reduce"
    /\ ~Panics(reduceFunc, wIn[w].item)
    /\ reduceCalls' = [reduceCalls EXCEPT ![wIn[w].idx] = @ + 1]
    /\ LET out == Reduce(reduceFunc, wIn[w].item)
       IN  IF out # Nil
           THEN /\ wOut' = [wOut EXCEPT ![w] = out]
                /\ wPc' = [wPc EXCEPT ![w] = "send"]
                /\ UNCHANGED wIn
           ELSE /\ wPc' = [wPc EXCEPT ![w] = "recv"]
                /\ wIn' = [wIn EXCEPT ![w] = NoItem]
                /\ UNCHANGED wOut

\* WorkerPanics in a worker that calls wg.Done() as its last statement
\* instead of deferring it.
WorkerPanicsWithoutDone(w) ==
    /\ wPc[w] = "reduce"
    /\ Panics(reduceFunc, wIn[w].item)
    /\ reduceCalls' = [reduceCalls EXCEPT ![wIn[w].idx] = @ + 1]
    /\ wPc' = [wPc EXCEPT ![w] = "panicked"]
    /\ UNCHANGED <<wg, wIn, wOut>>

\* `reduceFunc(in)` panics: the panic unwinds the worker, whose deferred
\* wg.Done() runs.  Constrains workerVars, reduceCalls, wg.
WorkerPanics(w) ==
    /\ wPc[w] = "reduce"
    /\ Panics(reduceFunc, wIn[w].item)
    /\ reduceCalls' = [reduceCalls EXCEPT ![wIn[w].idx] = @ + 1]
    /\ wPc' = [wPc EXCEPT ![w] = "panicked"]
    /\ wg' = wg - 1
    /\ UNCHANGED <<wIn, wOut>>

\* WorkerSends as a send that does not wait for the consumer: the value is
\* dropped.
WorkerSendsWithoutReceiver(w) ==
    /\ wPc[w] = "send"
    /\ wPc' = [wPc EXCEPT ![w] = "recv"]
    /\ wIn' = [wIn EXCEPT ![w] = NoItem]
    /\ wOut' = [wOut EXCEPT ![w] = Nil]
    /\ UNCHANGED <<consumerVars, panic>>

\* `outChan <- out`: a rendezvous with the consumer's receive; a send on a
\* closed channel panics.  Constrains workerVars, consumerVars, panic.
WorkerSends(w) ==
    /\ wPc[w] = "send"
    /\ IF outClosed
       THEN /\ panic' = "send on closed channel"
            /\ UNCHANGED <<workerVars, consumerVars>>
       ELSE /\ consumerPc = "recv"
            /\ received' = Append(received, wOut[w])
            /\ wPc' = [wPc EXCEPT ![w] = "recv"]
            /\ wIn' = [wIn EXCEPT ![w] = NoItem]
            /\ wOut' = [wOut EXCEPT ![w] = Nil]
            /\ UNCHANGED <<consumerPc, panic>>

\* close(ch) by goroutine `by`; closing a closed channel panics.
\* Constrains chanVars, panic.
Close(by, ch) ==
    IF (ch = "inChan" /\ inClosed) \/ (ch = "outChan" /\ outClosed)
    THEN /\ panic' = "close of closed channel"
         /\ UNCHANGED chanVars
    ELSE /\ inClosed' = (inClosed \/ ch = "inChan")
         /\ outClosed' = (outClosed \/ ch = "outChan")
         /\ closeLog' = Append(closeLog, [by |-> by, ch |-> ch])
         /\ UNCHANGED panic

\* --------------------------------------------- GoReduceLinesFromReader
\* L_Spawn with close(inChan) placed before the call of ProcessLinesFromReader.
L_SpawnThenClose ==
    /\ panic = "none" /\ variant = "lines" /\ enginePc = "spawn"
    /\ IF worker < numWorkers
       THEN /\ wg' = wg + 1
            /\ wPc' = [wPc EXCEPT ![worker + 1] = "recv"]
            /\ worker' = worker + 1
            /\ UNCHANGED enginePc
       ELSE /\ enginePc' = "closeIn"
            /\ UNCHANGED <<wg, wPc, worker>>
    /\ UNCHANGED <<args, readerVars, callerVars, chanVars, wIn, wOut, consumerVars,
                   recvLog, reduceCalls, pushed, panic>>

\* L_Spawn with a loop that starts one worker when numWorkers < 1.
L_SpawnAtLeastOne ==
    /\ panic = "none" /\ variant = "lines" /\ enginePc = "spawn"
    /\ IF worker < numWorkers \/ worker = 0
       THEN /\ wg' = wg + 1
            /\ wPc' = [wPc EXCEPT ![worker + 1] = "recv"]
            /\ worker' = worker + 1
            /\ UNCHANGED enginePc
       ELSE /\ enginePc' = "read"
            /\ UNCHANGED <<wg, wPc, worker>>
    /\ UNCHANGED <<args, readerVars, callerVars, chanVars, wIn, wOut, consumerVars,
                   recvLog, reduceCalls, pushed, panic>>

\* for worker := 0; worker < numWorkers; worker++ { wg.Add(1); go func() {...}() }
L_Spawn ==
    /\ panic = "none" /\ variant = "lines" /\ enginePc = "spawn"
    /\ IF worker < numWorkers
       THEN /\ wg' = wg + 1
            /\ wPc' = [wPc EXCEPT ![worker + 1] = "recv"]
            /\ worker' = worker + 1
            /\ UNCHANGED enginePc
       ELSE /\ enginePc' = "read"
            /\ UNCHANGED <<wg, wPc, worker>>
    /\ UNCHANGED <<args, readerVars, callerVars, chanVars, wIn, wOut, consumerVars,
                   recvLog, reduceCalls, pushed, panic>>

\* ProcessLinesFromReader in which a read error other than io.EOF panics.
ProcessLinesFromReaderFailsLoudly ==
    /\ panic = "none" /\ variant = "lines" /\ enginePc = "read"
    /\ LET rs == ReadString(rPos)
       IN  /\ rPos' = rs.pos
           /\ IF rs.err = "nil"
              THEN /\ line' = TrimLast(rs.line)
                   /\ calls' = Append(calls, TrimLast(rs.line))
                   /\ enginePc' = "push"
                   /\ UNCHANGED panic
              ELSE /\ enginePc' = "closeIn"
                   /\ panic' = (IF rs.err = "fail" THEN "read error" ELSE "none")
                   /\ UNCHANGED <<line, calls>>
    /\ UNCHANGED <<args, callerVars, worker, wg, chanVars, workerVars, consumerVars,
                   recvLog, reduceCalls, pushed>>

\* One iteration of the loop of ProcessLinesFromReader: ReadString, the test
\* err == nil, and the call of processFunc with the line less its last byte.
ProcessLinesFromReader ==
    /\ panic = "none" /\ variant = "lines" /\ enginePc = "read"
    /\ LET rs == ReadString(rPos)
       IN  /\ rPos' = rs.pos
           /\ IF rs.err = "nil"
              THEN /\ line' = TrimLast(rs.line)
                   /\ calls' = Append(calls, TrimLast(rs.line))
                   /\ enginePc' = "push"
              ELSE /\ enginePc' = "closeIn"
                   /\ UNCHANGED <<line, calls>>
    /\ UNCHANGED <<args, callerVars, worker, wg, chanVars, workerVars, consumerVars,
                   recvLog, reduceCalls, pushed, panic>>

\* L_Push as a send that does not wait for a receiver: the line is dropped.
L_PushDropsLine(w) ==
    /\ panic = "none" /\ variant = "lines" /\ enginePc = "push"
    /\ wPc[w] = "recv"
    /\ enginePc' = "read"
    /\ UNCHANGED <<args, readerVars, callerVars, worker, wg, chanVars, workerVars,
                   consumerVars, recvLog, reduceCalls, pushed, panic>>

\* processFunc is func(in string) { inChan <- in }: the send completes when a
\* worker receives it.
L_Push(w) ==
    /\ panic = "none" /\ variant = "lines" /\ enginePc = "push"
    /\ WorkerTakes(w, Len(calls), line)
    /\ enginePc' = "read"
    /\ UNCHANGED <<args, readerVars, callerVars, worker, wg, chanVars, consumerVars,
                   reduceCalls, panic>>

\* close(inChan)
L_CloseIn ==
    /\ panic = "none" /\ variant = "lines" /\ enginePc = "closeIn"
    /\ Close("engine", "inChan")
    /\ enginePc' = "wait"
    /\ UNCHANGED <<args, readerVars, callerVars, worker, wg, workerVars, consumerVars,
                   recvLog, reduceCalls, pushed>>

\* L_Wait without the wait: close(outChan) follows close(inChan) at once.
L_WaitReturnsAtOnce ==
    /\ panic = "none" /\ variant = "lines" /\ enginePc = "wait"
    /\ enginePc' = "closeOut"
    /\ UNCHANGED <<args, readerVars, callerVars, worker, wg, chanVars, workerVars,
                   consumerVars, recvLog, reduceCalls, pushed, panic>>

\* wg.Wait()
L_Wait ==
    /\ panic = "none" /\ variant = "lines" /\ enginePc = "wait"
    /\ wg = 0
    /\ enginePc' = "closeOut"
    /\ UNCHANGED <<args, readerVars, callerVars, worker, wg, chanVars, workerVars,
                   consumerVars, recvLog, reduceCalls, pushed, panic>>

\* L_CloseOut without the close: the goroutine ends and leaves outChan open.
L_CloseOutForgotten ==
    /\ panic = "none" /\ variant = "lines" /\ enginePc = "closeOut"
    /\ enginePc' = "done"
    /\ UNCHANGED <<args, readerVars, callerVars, worker, wg, chanVars, workerVars,
                   consumerVars, recvLog, reduceCalls, pushed, panic>>

\* close(outChan)
L_CloseOut ==
    /\ panic = "none" /\ variant = "lines" /\ enginePc = "closeOut"
    /\ Close("engine", "outChan")
    /\ enginePc' = "done"
    /\ UNCHANGED <<args, readerVars, callerVars, worker, wg, workerVars, consumerVars,
                   recvLog, reduceCalls, pushed>>

\* if in, ok := <-inChan; ok {...} else { return }, the else branch
L_WorkerReturn(w) ==
    /\ panic = "none" /\ variant = "lines"
    /\ WorkerReturns(w)
    /\ UNCHANGED <<args, readerVars, callerVars, engineVars, chanVars, consumerVars,
                   recvLog, reduceCalls, pushed, panic>>

\* if out := reduceFunc(in); out != nil
L_WorkerReduce(w) ==
    /\ panic = "none" /\ variant = "lines"
    /\ WorkerReduces(w)
    /\ UNCHANGED <<args, readerVars, callerVars, engineVars, wg, chanVars, consumerVars,
                   recvLog, pushed, panic>>

\* outChan <- out
L_WorkerSend(w) ==
    /\ panic = "none" /\ variant = "lines"
    /\ WorkerSends(w)
    /\ UNCHANGED <<args, readerVars, callerVars, engineVars, wg, chanVars,
                   recvLog, reduceCalls, pushed>>

\* ------------------------------------------------------------ GoReduce
\* G_Spawn with a loop that starts one worker when numWorkers < 1.
G_SpawnAtLeastOne ==
    /\ panic = "none" /\ variant = "chan" /\ enginePc = "spawn"
    /\ IF worker < numWorkers \/ worker = 0
       THEN /\ wg' = wg + 1
            /\ wPc' = [wPc EXCEPT ![worker + 1] = "recv"]
            /\ worker' = worker + 1
            /\ UNCHANGED enginePc
       ELSE /\ enginePc' = "wait"
            /\ UNCHANGED <<wg, wPc, worker>>
    /\ UNCHANGED <<args, readerVars, callerVars, chanVars, wIn, wOut, consumerVars,
                   recvLog, reduceCalls, pushed, panic>>

\* for worker := 0; worker < numWorkers; worker++ { wg.Add(1); go func() {...}() }
G_Spawn ==
    /\ panic = "none" /\ variant = "chan" /\ enginePc = "spawn"
    /\ IF worker < numWorkers
       THEN /\ wg' = wg + 1
            /\ wPc' = [wPc EXCEPT ![worker + 1] = "recv"]
            /\ worker' = worker + 1
            /\ UNCHANGED enginePc
       ELSE /\ enginePc' = "wait"
            /\ UNCHANGED <<wg, wPc, worker>>
    /\ UNCHANGED <<args, readerVars, callerVars, chanVars, wIn, wOut, consumerVars,
                   recvLog, reduceCalls, pushed, panic>>

\* G_Wait without the wait: close(outChan) follows the loop at once.
G_WaitReturnsAtOnce ==
    /\ panic = "none" /\ variant = "chan" /\ enginePc = "wait"
    /\ enginePc' = "closeOut"
    /\ UNCHANGED <<args, readerVars, callerVars, worker, wg, chanVars, workerVars,
                   consumerVars, recvLog, reduceCalls, pushed, panic>>

\* wg.Wait()
G_Wait ==
    /\ panic = "none" /\ variant = "chan" /\ enginePc = "wait"
    /\ wg = 0
    /\ enginePc' = "closeOut"
    /\ UNCHANGED <<args, readerVars, callerVars, worker, wg, chanVars, workerVars,
                   consumerVars, recvLog, reduceCalls, pushed, panic>>

\* G_CloseOut closing inChan as well, as GoReduceLinesFromReader does.
G_CloseOutAndIn ==
    /\ panic = "none" /\ variant = "chan" /\ enginePc = "closeOut"
    /\ IF inClosed \/ outClosed
       THEN /\ panic' = "close of closed channel"
            /\ UNCHANGED chanVars
       ELSE /\ inClosed' = TRUE
            /\ outClosed' = TRUE
            /\ closeLog' = closeLog \o <<[by |-> "engine", ch |-> "inChan"],
                                         [by |-> "engine", ch |-> "outChan"]>>
            /\ UNCHANGED panic
    /\ enginePc' = "done"
    /\ UNCHANGED <<args, readerVars, callerVars, worker, wg, workerVars, consumerVars,
                   recvLog, reduceCalls, pushed>>

\* close(outChan)
G_CloseOut ==
    /\ panic = "none" /\ variant = "chan" /\ enginePc = "closeOut"
    /\ Close("engine", "outChan")
    /\ enginePc' = "done"
    /\ UNCHANGED <<args, readerVars, callerVars, worker, wg, workerVars, consumerVars,
                   recvLog, reduceCalls, pushed>>

\* in, ok := <-inChan with ok: the caller's send of its next Item completes.
G_WorkerRecv(w) ==
    /\ panic = "none" /\ variant = "chan" /\ callerPc = "push"
    /\ callerK < Len(callerItems)
    /\ WorkerTakes(w, callerK + 1, callerItems[callerK + 1])
    /\ callerK' = callerK + 1
    /\ UNCHANGED <<args, readerVars, callerPc, engineVars, wg, chanVars, consumerVars,
                   reduceCalls, panic>>

\* in, ok := <-inChan; if !ok { return }
G_WorkerReturn(w) ==
    /\ panic = "none" /\ variant = "chan"
    /\ WorkerReturns(w)
    /\ UNCHANGED <<args, readerVars, callerVars, engineVars, chanVars, consumerVars,
                   recvLog, reduceCalls, pushed, panic>>

\* out := reduceFunc(in); if out != nil
G_WorkerReduce(w) ==
    /\ panic = "none" /\ variant = "chan"
    /\ WorkerReduces(w)
    /\ UNCHANGED <<args, readerVars, callerVars, engineVars, wg, chanVars, consumerVars,
                   recvLog, pushed, panic>>

\* outChan <- out
G_WorkerSend(w) ==
    /\ panic = "none" /\ variant = "chan"
    /\ WorkerSends(w)
    /\ UNCHANGED <<args, readerVars, callerVars, engineVars, wg, chanVars,
                   recvLog, reduceCalls, pushed>>

\* ------------------------------------------- the caller and the consumer
\* The caller of GoReduce after its last push: "Caller is expected to close
\* inChan after sending all input to it"; a caller that does not stays idle.
CallerClose ==
    /\ panic = "none" /\ variant = "chan" /\ callerPc = "push"
    /\ callerK = Len(callerItems)
    /\ IF callerCloses
       THEN /\ Close("caller", "inChan")
            /\ callerPc' = "done"
       ELSE /\ callerPc' = "idle"
            /\ UNCHANGED <<chanVars, panic>>
    /\ UNCHANGED <<args, readerVars, callerK, engineVars, wg, workerVars, consumerVars,
                   recvLog, reduceCalls, pushed>>

\* The consumer's receive on the closed outChan: the range over it ends.
ConsumerSeesClose ==
    /\ panic = "none" /\ consumerPc = "recv"
    /\ outClosed
    /\ consumerPc' = "done"
    /\ UNCHANGED <<args, readerVars, callerVars, engineVars, wg, chanVars, workerVars,
                   received, recvLog, reduceCalls, pushed, panic>>

\* reduceFunc(in) at line 31 panics
L_WorkerPanic(w) ==
    /\ panic = "none" /\ variant = "lines"
    /\ WorkerPanics(w)
    /\ UNCHANGED <<args, readerVars, callerVars, engineVars, chanVars, consumerVars,
                   recvLog, pushed, panic>>

\* reduceFunc(in) at line 69 panics
G_WorkerPanic(w) ==
    /\ panic = "none" /\ variant = "chan"
    /\ WorkerPanics(w)
    /\ UNCHANGED <<args, readerVars, callerVars, engineVars, chanVars, consumerVars,
                   recvLog, pushed, panic>>

\* No goroutine recovers: once the deferred calls of the panicking worker have
\* run, the Go runtime ends the program.
RuntimeExit ==
    /\ panic = "none"
    /\ \E w \in Workers : wPc[w] = "panicked"
    /\ panic' = "reduceFunc panicked"
    /\ UNCHANGED <<args, readerVars, callerVars, engineVars, wg, chanVars, workerVars,
                   consumerVars, recvLog, reduceCalls, pushed>>

Next ==
    \/ L_Spawn
    \/ ProcessLinesFromReader
    \/ \E w \in Workers : L_Push(w)
    \/ L_CloseIn
    \/ L_Wait
    \/ L_CloseOut
    \/ \E w \in Workers : L_WorkerReturn(w)
    \/ \E w \in Workers : L_WorkerReduce(w)
    \/ \E w \in Workers : L_WorkerSend(w)
    \/ G_Spawn
    \/ G_Wait
    \/ G_CloseOut
    \/ \E w \in Workers : G_WorkerRecv(w)
    \/ \E w \in Workers : G_WorkerReturn(w)
    \/ \E w \in Workers : G_WorkerReduce(w)
    \/ \E w \in Workers : G_WorkerSend(w)
    \/ CallerClose
    \/ ConsumerSeesClose

Spec == Init /\ [][Next]_vars

\* The consumer stops receiving from the channel GoReduce returned, for good.
ConsumerStops ==
    /\ panic = "none" /\ consumerPc = "recv"
    /\ consumerPc' = "stopped"
    /\ UNCHANGED <<args, readerVars, callerVars, engineVars, wg, chanVars, workerVars,
                   received, recvLog, reduceCalls, pushed, panic>>

\* The runs with a consumer that may stop receiving.
NextStop ==
    \/ Next
    \/ ConsumerStops

SpecStop == Init /\ [][NextStop]_vars

\* The runs with a reduceFunc that panics.
NextFault ==
    \/ Next
    \/ \E w \in Workers : L_WorkerPanic(w)
    \/ \E w \in Workers : G_WorkerPanic(w)
    \/ RuntimeExit

SpecFault == InitRun({"fault"}) /\ [][NextFault]_vars

\* Every goroutine that can take a step eventually takes one.
Fairness ==
    /\ WF_vars(L_Spawn)
    /\ WF_vars(ProcessLinesFromReader)
    /\ WF_vars(\E w \in Workers : L_Push(w))
    /\ WF_vars(L_CloseIn)
    /\ WF_vars(L_Wait)
    /\ WF_vars(L_CloseOut)
    /\ WF_vars(\E w \in Workers : L_WorkerReturn(w))
    /\ WF_vars(\E w \in Workers : L_WorkerReduce(w))
    /\ WF_vars(\E w \in Workers : L_WorkerSend(w))
    /\ WF_vars(G_Spawn)
    /\ WF_vars(G_Wait)
    /\ WF_vars(G_CloseOut)
    /\ WF_vars(\E w \in Workers : G_WorkerRecv(w))
    /\ WF_vars(\E w \in Workers : G_WorkerReturn(w))
    /\ WF_vars(\E w \in Workers : G_WorkerReduce(w))
    /\ WF_vars(\E w \in Workers : G_WorkerSend(w))
    /\ WF_vars(CallerClose)
    /\ WF_vars(ConsumerSeesClose)

FairSpec == Spec /\ Fairness

\* ------------------------------------------------------- format.Source
\* The bytes of a src: blank, tab, newline and a byte of code.
SrcBytes == {" ", "\t", "\n", "x"}
Sources == SeqsUpTo(SrcBytes, MaxSrc)

\* func isSpace(b byte) bool
isSpace(b) == b \in {" ", "\t", "\n", "\r"}

Max(S) == CHOOSE x \in S : \A y \in S : x >= y

RECURSIVE Tabs(_)
Tabs(n) == IF n <= 0 THEN <<>> ELSE <<"\t">> \o Tabs(n - 1)

\* bytes.TrimSpace(s)
TrimSpace(s) ==
    LET code == {k \in DOMAIN s : ~isSpace(s[k])}
    IN  IF code = {} THEN <<>> ELSE SubSeq(s, Min(code), Max(code))

\* "package p\n", "\nfunc _() {" and "\n}\n"
PackageClause == <<"p", "a", "c", "k", "a", "g", "e", " ", "p", "\n">>
FuncHeader == <<"\n", "f", "u", "n", "c", " ", "_", "(", ")", " ", "{">>
FuncEnd == <<"\n", "}", "\n">>

\* The statements of a src, identifiers of code bytes, and the blanks between
\* two of them.
StmtStarts(s) == {k \in DOMAIN s : ~isSpace(s[k]) /\ (k = 1 \/ isSpace(s[k - 1]))}
StmtEnd(s, k) == Min({e \in k..Len(s) : e = Len(s) \/ isSpace(s[e + 1])})
GapBefore(s, k) == SubSeq(s, StmtEnd(s, Max({q \in StmtStarts(s) : q < k})) + 1, k - 1)
NewlinesIn(g) == Cardinality({k \in DOMAIN g : g[k] = "\n"})

\* parse(fset, "", src, true): a src without code is an empty declaration
\* list, a src with code a statement list, which must have each statement on
\* a line of its own; it is never a complete source file.
ParseKind(s) ==
    IF StmtStarts(s) = {} THEN "decls"
    ELSE IF \A k \in StmtStarts(s) : k = Min(StmtStarts(s)) \/ NewlinesIn(GapBefore(s, k)) >= 1
         THEN "stmts"
         ELSE "error"

\* adjustIndent as parse returns it.
AdjustIndent(kind) == IF kind = "stmts" THEN 0 - 1 ELSE 0

\* cfg.Fprint(&buf, fset, file) with cfg.Indent = indent: the file parse made
\* of src, each line indented, one statement a line, runs of blank lines
\* reduced to one.
RECURSIVE FprintStmts(_, _, _)
FprintStmts(s, starts, indent) ==
    IF starts = {} THEN <<>>
    ELSE LET k == Min(starts)
             blank == IF k # Min(StmtStarts(s)) /\ NewlinesIn(GapBefore(s, k)) >= 2
                      THEN <<"\n">> ELSE <<>>
         IN  blank \o <<"\n">> \o Tabs(indent + 1) \o SubSeq(s, k, StmtEnd(s, k))
                   \o FprintStmts(s, starts \ {k}, indent)

Fprint(s, kind, indent) ==
    IF kind = "decls"
    THEN Tabs(indent) \o PackageClause
    ELSE Tabs(indent) \o PackageClause \o Tabs(indent) \o FuncHeader
             \o FprintStmts(s, StmtStarts(s), indent) \o Tabs(indent) \o FuncEnd

\* adjust(src, indent) as parse returns it: the wrapping removed, the rest
\* trimmed.
Adjust(kind, buf, indent) ==
    IF kind = "decls"
    THEN TrimSpace(SubSeq(buf, indent + Len(PackageClause) + 1, Len(buf)))
    ELSE LET ind == IF indent < 0 THEN 0 ELSE indent
             cut == SubSeq(buf, 2 * ind + Len(PackageClause) + Len(FuncHeader) + 1, Len(buf))
         IN  TrimSpace(SubSeq(cut, 1, Len(cut) - (ind + Len(FuncEnd))))

runVars == <<variant, numWorkers, reduceFunc, r, rErr, rPos, line, callerItems,
             callerCloses, callerPc, callerK, enginePc, worker, wg, inClosed,
             outClosed, wPc, wIn, wOut, consumerPc, received, calls, recvLog,
             reduceCalls, pushed, closeLog, panic>>

\* The state at a call of format.Source(src).
InitSource ==
    /\ src \in Sources
    /\ fmt = [FmtOff EXCEPT !.pc = "parse"]
    /\ variant = "format"
    /\ numWorkers = 0
    /\ reduceFunc = "const"
    /\ r = <<>>
    /\ rErr = "EOF"
    /\ rPos = 1
    /\ line = <<>>
    /\ callerItems = <<>>
    /\ callerCloses = FALSE
    /\ callerPc = "done"
    /\ callerK = 0
    /\ enginePc = "done"
    /\ worker = 0
    /\ wg = 0
    /\ inClosed = FALSE
    /\ outClosed = FALSE
    /\ wPc = [w \in Workers |-> "none"]
    /\ wIn = [w \in Workers |-> NoItem]
    /\ wOut = [w \in Workers |-> Nil]
    /\ consumerPc = "done"
    /\ received = <<>>
    /\ calls = <<>>
    /\ recvLog = <<>>
    /\ reduceCalls = [i \in 1..MaxPush |-> 0]
    /\ pushed = <<>>
    /\ closeLog = <<>>
    /\ panic = "none"

\* file, adjust, adjustIndent, err := parse(...); if err != nil { return nil, err }
Source_Parse ==
    /\ fmt.pc = "parse"
    /\ fmt' = [fmt EXCEPT !.pc = IF ParseKind(src) = "error" THEN "error" ELSE "leading"]
    /\ UNCHANGED <<src, runVars>>

\* Determine and prepend leading space: j counts the leading space bytes, i
\* those up to and including the last newline among them.
Source_Leading ==
    /\ fmt.pc = "leading"
    /\ LET j == IF \A k \in DOMAIN src : isSpace(src[k]) THEN Len(src)
                ELSE Min({k \in DOMAIN src : ~isSpace(src[k])}) - 1
           i == Max({0} \cup {k \in 1..j : src[k] = "\n"})
       IN  fmt' = [fmt EXCEPT !.pc = "indent", !.i = i, !.j = j, !.res = SubSeq(src, 1, i)]
    /\ UNCHANGED <<src, runVars>>

\* Determine and prepend indentation of first code line: one tab for each tab
\* of src[i:j], one tab when it has no tab and has a blank.
Source_Indent ==
    /\ fmt.pc = "indent"
    /\ LET tabs == Cardinality({k \in (fmt.i + 1)..fmt.j : src[k] = "\t"})
           hasSpace == \E k \in (fmt.i + 1)..fmt.j : src[k] = " "
           indent == IF tabs = 0 /\ hasSpace THEN 1 ELSE tabs
       IN  fmt' = [fmt EXCEPT !.pc = "format", !.indent = indent,
                              !.res = fmt.res \o Tabs(indent)]
    /\ UNCHANGED <<src, runVars>>

\* Format the source and append it without any leading and trailing space.
Source_Format ==
    /\ fmt.pc = "format"
    /\ LET kind == ParseKind(src)
           indent == fmt.indent + AdjustIndent(kind)
       IN  fmt' = [fmt EXCEPT !.pc = "trailing",
                              !.res = fmt.res \o Adjust(kind, Fprint(src, kind, indent), indent)]
    /\ UNCHANGED <<src, runVars>>

\* Determine and append trailing space.
Source_Trailing ==
    /\ fmt.pc = "trailing"
    /\ LET i == Max({0} \cup {k \in DOMAIN src : ~isSpace(src[k])})
       IN  fmt' = [fmt EXCEPT !.pc = "done", !.res = fmt.res \o SubSeq(src, i + 1, Len(src))]
    /\ UNCHANGED <<src, runVars>>

NextSource ==
    \/ Source_Parse
    \/ Source_Leading
    \/ Source_Indent
    \/ Source_Format
    \/ Source_Trailing

SpecSource == InitSource /\ [][NextSource]_vars

\* The leading and the trailing space of a byte sequence.
LeadingSpace(s) ==
    SubSeq(s, 1, Max({0} \cup {k \in DOMAIN s : \A q \in 1..k : isSpace(s[q])}))
TrailingSpace(s) ==
    SubSeq(s, Min({Len(s) + 1} \cup {k \in DOMAIN s : \A q \in k..Len(s) : isSpace(s[q])}), Len(s))

\* ------------------------------------------------- derived definitions
\* The positions of the delimiters of s, and the n-th of them.
DelimPos(s) == {i \in 1..Len(s) : s[i] = Delim}
NthDelim(s, n) == CHOOSE i \in DelimPos(s) : Cardinality({j \in DelimPos(s) : j <= i}) = n

\* The delimiter-terminated lines of s, in order, each without its delimiter;
\* what follows the last delimiter is no line.
TerminatedLines(s) ==
    [n \in 1..Cardinality(DelimPos(s)) |->
        SubSeq(s, (IF n = 1 THEN 0 ELSE NthDelim(s, n - 1)) + 1, NthDelim(s, n) - 1)]

\* The input Items of the run.
InputItems == IF variant = "lines" THEN TerminatedLines(r) ELSE callerItems

IsPrefix(s, t) == Len(s) <= Len(t) /\ s = SubSeq(t, 1, Len(s))

\* The multiset of the elements of a sequence.
BagOf(s) ==
    [v \in {s[i] : i \in DOMAIN s} |-> Cardinality({i \in DOMAIN s : s[i] = v})]

\* reduce(item) over the input Items, the nil results left out.
ExpectedResults ==
    LET all == [i \in DOMAIN InputItems |-> Reduce(reduceFunc, InputItems[i])]
    IN  SelectSeq(all, LAMBDA x : x # Nil)

\* The non-nil results reduceFunc has returned so far.
ComputedResults ==
    LET all == [i \in DOMAIN pushed |->
                   IF reduceCalls[i] > 0 THEN Reduce(reduceFunc, pushed[i]) ELSE Nil]
    IN  SelectSeq(all, LAMBDA x : x # Nil)

Spawned == 1..worker
ClosesOf(ch) == {k \in DOMAIN closeLog : closeLog[k].ch = ch}
ReceiversOf(i) == {k \in DOMAIN recvLog : recvLog[k].idx = i}
HoldersOf(i) == {w \in Workers : wPc[w] \in {"reduce", "send"} /\ wIn[w].idx = i}

\* ================================================================ claims
\* C1: for numWorkers >= 1, every Item whose send on inChan completed was
\* received by exactly one worker, reduceFunc is called on it at most once, and
\* until that call the receiving worker holds it; once outChan is closed
\* reduceFunc has been called exactly once on every pushed Item.  Only input
\* Items are pushed, in input order.
C1_ExactlyOnce ==
    numWorkers >= 1 =>
        /\ IsPrefix(pushed, InputItems)
        /\ \A k \in DOMAIN recvLog : recvLog[k].idx \in DOMAIN pushed
        /\ \A i \in 1..MaxPush : i \notin DOMAIN pushed => reduceCalls[i] = 0
        /\ \A i \in DOMAIN pushed :
              /\ Cardinality(ReceiversOf(i)) = 1
              /\ \A k \in ReceiversOf(i) : recvLog[k].item = pushed[i]
              /\ reduceCalls[i] <= 1
              /\ reduceCalls[i] = 0 =>
                    /\ Cardinality(HoldersOf(i)) = 1
                    /\ \A w \in HoldersOf(i) :
                          /\ wPc[w] = "reduce"
                          /\ wIn[w].item = pushed[i]
                          /\ \E k \in ReceiversOf(i) : recvLog[k].w = w
              /\ outClosed => reduceCalls[i] = 1

\* Two workers have each received an Item and outChan is closed.
C1_Witness ==
    /\ numWorkers >= 2
    /\ outClosed
    /\ Len(pushed) >= 2
    /\ \E j, k \in DOMAIN recvLog : recvLog[j].w # recvLog[k].w

\* C2: outChan is closed at most once, and exactly once when the engine
\* goroutine has ended; whenever it is closed every one of the numWorkers
\* workers has returned and the consumer has received every non-nil result
\* reduceFunc returned; no worker sends on the closed outChan.
C2_OutClosedAfterAll ==
    /\ Cardinality(ClosesOf("outChan")) <= 1
    /\ outClosed <=> Cardinality(ClosesOf("outChan")) = 1
    /\ enginePc = "done" => outClosed
    /\ panic = "none"
    /\ outClosed =>
          /\ worker >= numWorkers
          /\ \A w \in Workers : w <= numWorkers => wPc[w] = "done"
          /\ \A w \in Workers : wPc[w] # "send"
          /\ wg = 0
          /\ BagOf(received) = BagOf(ComputedResults)

\* outChan is closed after two workers delivered results.
C2_Witness ==
    /\ outClosed
    /\ numWorkers = 2
    /\ Len(received) >= 2
    /\ \A w \in Workers : wPc[w] = "done"
    /\ \E w \in Workers : \E k \in DOMAIN recvLog : recvLog[k].w # w

\* C3: for numWorkers >= 1, once outChan is closed the multiset of the values
\* the consumer received is the multiset of the non-nil reduceFunc(item) over
\* the input Items, which does not depend on numWorkers.
C3_ResultMultiset ==
    (numWorkers >= 1 /\ outClosed) => BagOf(received) = BagOf(ExpectedResults)

\* A run whose input has Items with nil and with equal non-nil results.
C3_Witness ==
    /\ numWorkers >= 1
    /\ outClosed
    /\ Len(InputItems) >= 3
    /\ Len(received) = 2
    /\ received[1] = received[2]
    /\ Len(received) < Len(InputItems)

\* C4: every value the consumer received is non-nil and is reduceFunc(item)
\* for an input Item.
C4_NoNilSent ==
    \A k \in DOMAIN received :
        /\ received[k] # Nil
        /\ \E i \in DOMAIN InputItems : received[k] = Reduce(reduceFunc, InputItems[i])

\* reduceFunc returned nil for one Item and a value for another, which the
\* consumer received.
C4_Witness ==
    /\ \E i \in DOMAIN pushed :
          reduceCalls[i] = 1 /\ Reduce(reduceFunc, pushed[i]) = Nil
    /\ Len(received) >= 1
    /\ outClosed

\* C5: in GoReduce with numWorkers >= 1, when the caller pushes its K Items
\* and then closes inChan (and every goroutine and the consumer keep taking
\* their steps), eventually outChan is closed, every worker has returned, and
\* reduceFunc has been called exactly once on each of exactly the K Items.
C5_Done ==
    /\ outClosed
    /\ enginePc = "done"
    /\ consumerPc = "done"
    /\ \A w \in Workers : w <= numWorkers => wPc[w] = "done"
    /\ pushed = callerItems
    /\ \A i \in 1..MaxPush : reduceCalls[i] = (IF i <= Len(callerItems) THEN 1 ELSE 0)

C5_Terminates ==
    (variant = "chan" /\ numWorkers >= 1 /\ callerCloses) => <>[]C5_Done

\* GoReduce has ended for a caller that pushed three Items to two workers.
C5_Witness ==
    /\ variant = "chan"
    /\ callerCloses
    /\ numWorkers = 2
    /\ Len(callerItems) = 3
    /\ C5_Done

CallerClosedIn == \E k \in DOMAIN closeLog : closeLog[k] = [by |-> "caller", ch |-> "inChan"]

\* C6 as stated: in GoReduce, whenever outChan is closed the caller has closed
\* inChan.
C6_Original ==
    (variant = "chan" /\ outClosed) => CallerClosedIn

\* C6 amended: in GoReduce with numWorkers >= 1, whenever outChan is closed the
\* caller has closed inChan; while inChan is open no worker has returned and
\* the engine has not passed wg.Wait(); and when the caller has stopped without
\* closing, every worker that is not still working on an Item is blocked on
\* its receive.
C6_NeverEndsUnclosed ==
    (variant = "chan" /\ numWorkers >= 1) =>
        /\ outClosed => CallerClosedIn
        /\ ~inClosed =>
              /\ enginePc \in {"spawn", "wait"}
              /\ consumerPc = "recv"
              /\ \A w \in Workers : wPc[w] # "done"
        /\ callerPc = "idle" =>
              /\ ~inClosed
              /\ pushed = callerItems
              /\ \A w \in Workers : w <= worker => wPc[w] \in {"recv", "reduce", "send"}

\* The caller pushed its Items and left inChan open; all were processed and
\* both workers are blocked on their receive.
C6_Witness ==
    /\ variant = "chan"
    /\ numWorkers = 2
    /\ callerPc = "idle"
    /\ Len(callerItems) >= 2
    /\ enginePc = "wait"
    /\ \A i \in DOMAIN callerItems : reduceCalls[i] = 1
    /\ \A w \in Workers : wPc[w] = "recv"
    /\ Len(received) >= 1

\* C7: the engine goroutine of GoReduce never closes inChan; the engine closes
\* only outChan and, in GoReduceLinesFromReader, the inChan it made; workers
\* close nothing.
C7_EngineClosesOwnChans ==
    \A k \in DOMAIN closeLog :
        /\ closeLog[k].by \in {"engine", "caller"}
        /\ closeLog[k].by = "caller" => (variant = "chan" /\ closeLog[k].ch = "inChan")
        /\ closeLog[k].by = "engine" =>
              (closeLog[k].ch = "outChan" \/ (closeLog[k].ch = "inChan" /\ variant = "lines"))

\* GoReduce has ended: the caller closed inChan, the engine closed outChan.
C7_Witness ==
    /\ variant = "chan"
    /\ enginePc = "done"
    /\ closeLog = <<[by |-> "caller", ch |-> "inChan"], [by |-> "engine", ch |-> "outChan"]>>
    /\ Len(pushed) >= 1

\* C8: in GoReduceLinesFromReader inChan is closed at most once, and when it is
\* closed ProcessLinesFromReader has returned and every line it produced has
\* been pushed and received; these are all the lines of the stream, so nothing
\* is pushed after the close.
C8_InClosedAfterLastPush ==
    variant = "lines" =>
        /\ Cardinality(ClosesOf("inChan")) <= 1
        /\ inClosed <=> Cardinality(ClosesOf("inChan")) = 1
        /\ panic = "none"
        /\ IsPrefix(pushed, calls)
        /\ IsPrefix(calls, TerminatedLines(r))
        /\ enginePc \in {"wait", "closeOut", "done"} => inClosed
        /\ inClosed =>
              /\ enginePc \in {"wait", "closeOut", "done"}
              /\ rPos = Len(r) + 1
              /\ pushed = calls
              /\ calls = TerminatedLines(r)
              /\ Len(recvLog) = Len(calls)

\* inChan is closed after two lines were pushed, an unterminated rest unread.
C8_Witness ==
    /\ variant = "lines"
    /\ inClosed
    /\ Len(pushed) >= 2
    /\ \E w \in Workers : wPc[w] = "recv"

\* No input Item has a non-nil result.
NoResults == \A i \in DOMAIN InputItems : Reduce(reduceFunc, InputItems[i]) = Nil

\* C9: for numWorkers >= 1, when no input Item has a non-nil result (and, in
\* GoReduce, the caller closes inChan after its pushes), the consumer never
\* receives a value and outChan is eventually closed.
C9_NoResultsClose ==
    (numWorkers >= 1 /\ NoResults /\ (variant = "chan" => callerCloses)) =>
        /\ [](received = <<>>)
        /\ <>[](outClosed /\ consumerPc = "done" /\ pushed = InputItems)

\* outChan is closed with nothing delivered after two Items were reduced to nil.
C9_Witness ==
    /\ numWorkers >= 1
    /\ NoResults
    /\ Len(InputItems) >= 2
    /\ pushed = InputItems
    /\ \A i \in DOMAIN pushed : reduceCalls[i] = 1
    /\ outClosed
    /\ consumerPc = "done"
    /\ received = <<>>

\* C10: ProcessLinesFromReader calls processFunc with the delimiter-terminated
\* lines of the stream, once each, in stream order, each without its
\* delimiter; when it has returned it has been called with all of them, and
\* with nothing for bytes after the last delimiter.
C10_CallsAreTerminatedLines ==
    variant = "lines" =>
        /\ IsPrefix(calls, TerminatedLines(r))
        /\ enginePc = "push" => (calls # <<>> /\ line = calls[Len(calls)])
        /\ enginePc \in {"closeIn", "wait", "closeOut", "done"} =>
              /\ calls = TerminatedLines(r)
              /\ Len(calls) = Cardinality(DelimPos(r))

\* ProcessLinesFromReader has returned from a stream of two lines, the second
\* not empty, followed by bytes without a delimiter.
C10_Witness ==
    /\ variant = "lines"
    /\ enginePc = "done"
    /\ Len(calls) = 2
    /\ calls[2] # <<>>
    /\ r # <<>>
    /\ r[Len(r)] # Delim

\* C11: when format.Source returns a result for a partial source file that
\* has code, the result has the leading space and the trailing space of src.
C11_SameLeadingTrailingSpace ==
    (fmt.pc = "done" /\ StmtStarts(src) # {}) =>
        /\ LeadingSpace(fmt.res) = LeadingSpace(src)
        /\ TrailingSpace(fmt.res) = TrailingSpace(src)

Running == {w \in Workers : wPc[w] \in {"recv", "reduce", "send"}}
Panicked == {w \in Workers : wPc[w] = "panicked"}

\* C12 as stated: a worker in which reduceFunc panicked has not signalled its
\* completion (wg still counts it), and outChan is not closed afterwards.
C12_Original ==
    /\ wg = Cardinality(Running) + Cardinality(Panicked)
    /\ Panicked # {} => ~outClosed

\* C12 amended: when reduceFunc panics in a worker, the worker's deferred
\* wg.Done() runs, so wg counts the running workers only and wg.Wait() does not
\* wait for the panicked worker; outChan is closed only when every worker has
\* returned or panicked; the only panic is reduceFunc's, and it ends the
\* program.
C12_PanicSignalsCompletion ==
    /\ wg = Cardinality(Running)
    /\ \A w \in Panicked : Panics(reduceFunc, wIn[w].item) /\ reduceCalls[wIn[w].idx] = 1
    /\ panic \in {"none", "reduceFunc panicked"}
    /\ panic # "none" => Panicked # {}
    /\ Panicked # {} => (panic # "none" \/ ENABLED RuntimeExit)
    /\ enginePc \in {"closeOut", "done"} => Running = {}
    /\ outClosed => \A w \in Workers : w <= numWorkers => wPc[w] \in {"done", "panicked"}

\* reduceFunc panicked in one of two workers and the other worker returned;
\* wg.Wait() returned and outChan was closed before the panic ended the
\* program.
C12_Witness ==
    /\ numWorkers = 2
    /\ Panicked # {}
    /\ \E w \in Workers : wPc[w] = "done"
    /\ outClosed
    /\ panic = "reduceFunc panicked"

\* The Items a worker has received and not finished, and the Items finished:
\* reduceFunc returned nil for them, or the consumer has received their result.
InFlight == {w \in Workers : wPc[w] \in {"reduce", "send"}}
FinishedCount ==
    Cardinality({i \in DOMAIN pushed :
                    reduceCalls[i] = 1 /\ Reduce(reduceFunc, pushed[i]) = Nil})
        + Len(received)

\* C13: each worker holds at most one unfinished Item, the Items pushed and
\* not finished are exactly the ones the workers hold, so at most as many as
\* there are workers; a worker holding a non-nil result stays at its send, its
\* Item and result unchanged, until the step in which the consumer receives
\* that result.
C13_Backpressure ==
    /\ [](/\ \A i \in DOMAIN pushed : Cardinality(HoldersOf(i)) <= 1
          /\ \A w \in Workers : wPc[w] = "send" => wOut[w] # Nil
          /\ Len(pushed) - FinishedCount = Cardinality(InFlight)
          /\ Cardinality(InFlight) <= worker
          /\ worker <= Max({numWorkers, 0}))
    /\ [][\A w \in Workers : wPc[w] = "send" =>
             \/ wPc'[w] = "send" /\ wIn'[w] = wIn[w] /\ wOut'[w] = wOut[w]
             \/ wPc'[w] = "recv" /\ received' = Append(received, wOut[w])]_vars

\* Two workers each hold a result the consumer has not received, and the
\* producer is blocked on the push of a third line.
C13_Witness ==
    /\ variant = "lines" /\ numWorkers = 2
    /\ \A w \in Workers : wPc[w] = "send"
    /\ Len(pushed) = 2 /\ received = <<>>
    /\ enginePc = "push"

\* C14: in GoReduceLinesFromReader the k-th receive on inChan, whichever
\* worker makes it, carries the k-th line of the stream; receives are only
\* added at the end of the history; and when inChan is closed every line has
\* been received, no receive following the close.
C14_ReceivesInSourceOrder ==
    /\ [](variant = "lines" =>
            /\ Len(recvLog) <= Len(TerminatedLines(r))
            /\ \A k \in DOMAIN recvLog :
                  recvLog[k].idx = k /\ recvLog[k].item = TerminatedLines(r)[k]
            /\ inClosed => Len(recvLog) = Len(TerminatedLines(r)))
    /\ [][variant = "lines" =>
             /\ IsPrefix(recvLog, recvLog')
             /\ inClosed => recvLog' = recvLog]_vars

\* Two different lines were received by two different workers, and inChan is
\* closed.
C14_Witness ==
    /\ variant = "lines" /\ inClosed
    /\ Len(recvLog) >= 2
    /\ recvLog[1].w # recvLog[2].w
    /\ recvLog[1].item # recvLog[2].item

\* C15 as stated: when an Item has been pushed, all numWorkers workers have
\* been created.
C15_Original == pushed # <<>> => worker = numWorkers

\* C15 amended: workers are created only by the loop at the start of the
\* engine goroutine, one per iteration, numWorkers of them (none when
\* numWorkers <= 0); in GoReduceLinesFromReader all of them exist before the
\* first push completes; a worker returns only from its receive and only when
\* inChan is closed; a worker that returned stays returned, and no receive on
\* inChan and no send on outChan is its.
C15_WorkersCreatedOnce ==
    /\ [](/\ worker <= Max({numWorkers, 0})
          /\ enginePc # "spawn" => worker = Max({numWorkers, 0})
          /\ \A w \in Workers : wPc[w] # "none" <=> w <= worker
          /\ (variant = "lines" /\ pushed # <<>>) => worker = numWorkers
          /\ \A w \in Workers : wPc[w] = "done" => inClosed)
    /\ [][/\ worker' # worker => (enginePc = "spawn" /\ worker' = worker + 1)
          /\ \A w \in Workers :
                /\ wPc[w] # "none" => wPc'[w] # "none"
                /\ wPc[w] = "done" => wPc'[w] = "done"
                /\ (wPc'[w] = "done" /\ wPc[w] # "done") =>
                       (wPc[w] = "recv" /\ inClosed /\ wIn[w] = NoItem)
          /\ recvLog' # recvLog => wPc[recvLog'[Len(recvLog')].w] = "recv"
          /\ received' # received =>
                \E w \in Workers : wPc[w] = "send" /\ wPc'[w] = "recv"]_vars

\* Both workers have returned, the second one after it received an Item.
C15_Witness ==
    /\ numWorkers = 2
    /\ \A w \in Workers : wPc[w] = "done"
    /\ Len(pushed) >= 2
    /\ \E k \in DOMAIN recvLog : recvLog[k].w = 2

\* GoReduceLinesFromReader has ended as after a clean end of stream: exactly
\* the delimiter-terminated lines were pushed and reduced once each, the engine
\* closed inChan and then outChan, nothing panicked, and the consumer received
\* the non-nil results and then the close, nothing else.
C16_Done ==
    /\ enginePc = "done" /\ panic = "none"
    /\ pushed = TerminatedLines(r)
    /\ \A i \in 1..MaxPush : reduceCalls[i] = (IF i <= Len(TerminatedLines(r)) THEN 1 ELSE 0)
    /\ closeLog = <<[by |-> "engine", ch |-> "inChan"], [by |-> "engine", ch |-> "outChan"]>>
    /\ BagOf(received) = BagOf(ExpectedResults)
    /\ consumerPc = "done"

\* C16: in GoReduceLinesFromReader with numWorkers >= 1 and a receiving
\* consumer, whether the reader ends with io.EOF or with a read failure after
\* its k complete lines, the run ends in the same way: the k lines processed,
\* inChan closed, outChan closed, and nothing but the results received.
C16_ReadFailureAsEOF ==
    (variant = "lines" /\ numWorkers >= 1) => <>[]C16_Done

\* A run has ended whose reader failed after two complete lines and some
\* bytes of a third; the consumer received the two results.
C16_Witness ==
    /\ variant = "lines" /\ rErr = "fail"
    /\ Len(TerminatedLines(r)) = 2
    /\ r[Len(r)] # Delim
    /\ Len(received) = 2
    /\ C16_Done

\* The consumer has stopped while the result of some input Item is not
\* computed or not delivered.
StoppedEarly == consumerPc = "stopped" /\ Len(received) < Len(ExpectedResults)

\* C18 as stated, for numWorkers >= 1: once the consumer has stopped early,
\* the producer does not get past its pushes (inChan is not closed), no worker
\* returns, wg.Wait() does not return and outChan is not closed.
C18_Original ==
    (StoppedEarly /\ numWorkers >= 1) =>
        /\ ~inClosed
        /\ \A w \in Workers : wPc[w] # "done"
        /\ enginePc \notin {"closeOut", "done"}
        /\ ~outClosed

\* C18 amended: for numWorkers >= 1, once the consumer has stopped early it
\* receives nothing more, a worker at its send stays there with its result,
\* and as long as a result is computed and not delivered a worker is at its
\* send; wg stays positive, so wg.Wait() does not return and outChan is never
\* closed.
C18_NoCancellation ==
    /\ [](StoppedEarly /\ numWorkers >= 1 =>
            /\ Len(received) < Len(ComputedResults) => \E w \in Workers : wPc[w] = "send"
            /\ Len(ComputedResults) = Len(ExpectedResults) => \E w \in Workers : wPc[w] = "send"
            /\ enginePc # "spawn" => wg >= 1
            /\ enginePc \notin {"closeOut", "done"}
            /\ ~outClosed
            /\ panic = "none")
    /\ [][consumerPc = "stopped" =>
             /\ consumerPc' = "stopped" /\ received' = received
             /\ \A w \in Workers : wPc[w] = "send" =>
                    (wPc'[w] = "send" /\ wOut'[w] = wOut[w])]_vars

\* The consumer stopped with a result undelivered: one worker is blocked on
\* its send, the other has returned, and the producer has pushed every line,
\* closed inChan and waits in wg.Wait().
C18_Witness ==
    /\ variant = "lines" /\ numWorkers = 2
    /\ StoppedEarly
    /\ inClosed /\ enginePc = "wait"
    /\ \E w \in Workers : wPc[w] = "send"
    /\ \E w \in Workers : wPc[w] = "done"

\* C19: GoReduceLinesFromReader with numWorkers <= 0 and a stream with at
\* least one delimiter-terminated line starts no worker, never completes a
\* push and closes neither inChan nor outChan; once it is at its first push no
\* step of the program is possible any more.
C19_BlocksOnFirstPush ==
    (variant = "lines" /\ numWorkers <= 0 /\ TerminatedLines(r) # <<>>) =>
        /\ worker = 0 /\ wg = 0
        /\ pushed = <<>> /\ recvLog = <<>>
        /\ ~inClosed /\ ~outClosed /\ closeLog = <<>>
        /\ enginePc \in {"spawn", "read", "push"}
        /\ enginePc = "push" =>
              /\ calls = <<TerminatedLines(r)[1]>>
              /\ line = TerminatedLines(r)[1]
              /\ ~ENABLED Next

\* The engine, called with a negative numWorkers, is at the push of the first
\* of two lines.
C19_Witness ==
    /\ variant = "lines" /\ numWorkers < 0
    /\ Len(TerminatedLines(r)) = 2
    /\ enginePc = "push"
    /\ consumerPc = "recv"

\* C20: GoReduce with numWorkers <= 0 starts no worker and receives no Item;
\* wg.Wait() returns at once and outChan is closed with nothing sent on it,
\* whether or not the caller closes inChan; a caller with an Item to push
\* never completes its first push, and when the consumer has seen the close,
\* no step of the program is possible any more.
C20_ClosesAtOnce ==
    (variant = "chan" /\ numWorkers <= 0) =>
        /\ worker = 0 /\ wg = 0
        /\ pushed = <<>> /\ recvLog = <<>> /\ received = <<>>
        /\ callerK = 0
        /\ inClosed => (callerItems = <<>> /\ CallerClosedIn)
        /\ panic = "none"
        /\ callerItems # <<>> => callerPc = "push"
        /\ ENABLED Next <=> (enginePc # "done" \/ consumerPc = "recv"
                                \/ (callerItems = <<>> /\ callerPc = "push"))
        /\ consumerPc = "done" =>
              (outClosed /\ Cardinality(ClosesOf("outChan")) = 1)

\* GoReduce, called with numWorkers = 0, has closed outChan and the consumer
\* has seen the close, while the caller is at the first of its three pushes.
C20_Witness ==
    /\ variant = "chan" /\ numWorkers = 0
    /\ Len(callerItems) = 3 /\ callerPc = "push" /\ callerK = 0
    /\ enginePc = "done" /\ outClosed /\ consumerPc = "done"

====
